---- MODULE Spec2Model ----
(***************************************************************************)
(* API access-log dashboards (Logsv2, APILogsDashboard,                    *)
(* TerminalAPILogsDashboard): the record list, the summary metrics, the    *)
(* hourly chart series and the filtered view, as state machines.           *)
(*                                                                         *)
(* Representation.                                                         *)
(*  - A JS string that the code inspects (endpoint, search text, time key) *)
(*    is a sequence of one-character strings.                              *)
(*  - A JS number that may be NaN is a record [nan, v]; see Num and NaN.   *)
(*  - An ISO timestamp string is the record of its UTC fields              *)
(*    [valid, day, hour, min, sec]; valid = FALSE is unparseable.      *)
(*  - A fraction (successRate) is an exact reduced pair [num, den].        *)
(*  - A log object carries `gen`/`idx`, the identity of the object (which  *)
(*    fetch or generator call created it, and its index in that call).     *)
(***************************************************************************)
EXTENDS Integers, Sequences, FiniteSets, TLC

(***************************************************************************)
(* Bounds of the model.                                                    *)
(***************************************************************************)
\* longest record sequence handed to the pure functions
MaxLen == 3
\* fetches / generator calls after the mount effect in one behaviour
MaxFetches == 2
\* longest record sequence shown while the filter controls are used
MaxFilterLen == 2
\* number of 30-minute clock steps in one behaviour
MaxClockSteps == 1
\* records per fetchApiLogs call (the mock makes 50)
FetchCount == 2
\* records made by APILogsDashboard's mount effect (the code makes 20)
InitialStreamCount == 2
\* length cap of APILogsDashboard's list (the code keeps 1 + 49)
StreamCap == 3
\* length of TerminalAPILogsDashboard's list (the code makes 200, keeps 1 + 199)
TerminalCap == 2

(***************************************************************************)
(* JS numbers, strings and dates.                                          *)
(***************************************************************************)
Num(v) == [nan |-> FALSE, v |-> v]
NaN == [nan |-> TRUE, v |-> 0]

\* a < b and a > b on JS numbers: any comparison with NaN is false
JsLt(a, b) == ~a.nan /\ ~b.nan /\ a.v < b.v
JsGt(a, b) == ~a.nan /\ ~b.nan /\ a.v > b.v

DigitChars == <<"0", "1", "2", "3", "4", "5", "6", "7", "8", "9">>
IsDigit(c) == \E d \in 1..10 : DigitChars[d] = c
DigitValue(c) == (CHOOSE d \in 1..10 : DigitChars[d] = c) - 1

RECURSIVE NatToString(_)
NatToString(n) ==
  IF n < 10 THEN <<DigitChars[n + 1]>>
  ELSE NatToString(n \div 10) \o <<DigitChars[(n % 10) + 1]>>

\* String(x) for a non-negative integer or NaN
String(x) == IF x.nan THEN <<"N", "a", "N">> ELSE NatToString(x.v)

RECURSIVE padStart(_, _, _)
padStart(s, targetLength, padChar) ==
  IF Len(s) >= targetLength THEN s
  ELSE padStart(<<padChar>> \o s, targetLength, padChar)

\* s.split(':')[0]
RECURSIVE splitColonFirst(_)
splitColonFirst(s) ==
  IF s = <<>> \/ Head(s) = ":" THEN <<>>
  ELSE <<Head(s)>> \o splitColonFirst(Tail(s))

RECURSIVE DigitPrefix(_)
DigitPrefix(s) ==
  IF s = <<>> \/ ~IsDigit(Head(s)) THEN <<>>
  ELSE <<Head(s)>> \o DigitPrefix(Tail(s))

RECURSIVE DigitsValue(_)
DigitsValue(s) ==
  IF s = <<>> THEN 0
  ELSE 10 * DigitsValue(SubSeq(s, 1, Len(s) - 1)) + DigitValue(s[Len(s)])

\* parseInt(s): the leading decimal digits, NaN when there are none
parseInt(s) ==
  LET p == DigitPrefix(s) IN IF p = <<>> THEN NaN ELSE Num(DigitsValue(p))

UpperChars == <<"A", "B", "C", "D", "E", "F", "G", "H", "I", "J", "K", "L", "M",
                "N", "O", "P", "Q", "R", "S", "T", "U", "V", "W", "X", "Y", "Z">>
LowerChars == <<"a", "b", "c", "d", "e", "f", "g", "h", "i", "j", "k", "l", "m",
                "n", "o", "p", "q", "r", "s", "t", "u", "v", "w", "x", "y", "z">>
LowerChar(c) ==
  IF \E i \in 1..26 : UpperChars[i] = c
  THEN LowerChars[CHOOSE i \in 1..26 : UpperChars[i] = c]
  ELSE c
toLowerCase(s) == [i \in 1..Len(s) |-> LowerChar(s[i])]

\* hay.includes(needle)
includes(hay, needle) ==
  \E i \in 0..(Len(hay) - Len(needle)) : SubSeq(hay, i + 1, i + Len(needle)) = needle

\* the ISO string with the given UTC fields
Iso(day, hour, min, sec) ==
  [valid |-> TRUE, day |-> day, hour |-> hour, min |-> min, sec |-> sec]
\* a string that new Date() cannot parse
InvalidTimestamp == [valid |-> FALSE, day |-> 0, hour |-> 0, min |-> 0, sec |-> 0]

\* date.toISOString() of an instant given in seconds since the epoch
toISOString(t) ==
  Iso(t \div 86400, (t % 86400) \div 3600, (t % 3600) \div 60, t % 60)

\* new Date(timestamp).getTime(), in seconds since the epoch
DateOf(timestamp) ==
  IF timestamp.valid
  THEN Num(timestamp.day * 86400 + timestamp.hour * 3600
           + timestamp.min * 60 + timestamp.sec)
  ELSE NaN


(***************************************************************************)
(* State.                                                                  *)
(***************************************************************************)
VARIABLES
  variant,            \* which dashboard component is mounted
  tzOffset,           \* the runtime's local time zone, seconds east of UTC
  now,                \* the wall clock (new Date()), seconds since the epoch
  fetches,            \* generator calls so far (identity of the objects made)
  mounted,            \* the mount effect ("Initialize data") has run
  logs,               \* useState: logs
  metrics,            \* useState: metrics
  graphData,          \* useState: graphData
  isRealTime,         \* useState: isRealTime
  filters,            \* useState: filters (a JS object: keys may be absent)
  selectedTimeRange,  \* useState: selectedTimeRange (NoRange is null)
  lastOp,             \* the handler that last wrote logs, metrics or graphData
  batch,              \* the records the last handler fetched or generated
  brush,              \* ChartSection's brushStartIndex and brushEndIndex
  intervals,          \* number of live setInterval timers of the real-time effect
  inFlight,           \* an interval callback is awaiting fetchApiLogs()
  selectedLog,        \* useState: selectedLog (NoLog is null)
  currentPage,        \* RecentAPILogs useState: currentPage
  currentStory,       \* StoryViewer: this.currentStory (0-based)
  progressInterval,   \* StoryViewer: this.progressInterval (NoTimer is null)
  timers,             \* pending setTimeout callbacks, in the order they were set
  applied             \* the functions whose result over `logs` is in the state

\* the state of the story viewer
storyVars == <<currentStory, progressInterval, timers>>
\* the state of the inspector, of the paginated table and of the story viewer
extraVars == <<selectedLog, currentPage, storyVars>>

vars == <<extraVars, variant, tzOffset, now, fetches, mounted, logs, metrics, graphData,
          isRealTime, filters, selectedTimeRange, brush, intervals, inFlight, lastOp, batch,
                 applied>>

\* new Date(timestamp).getHours(): the hour of day in the local time zone
getHours(timestamp) ==
  LET t == DateOf(timestamp)
  IN IF t.nan THEN NaN ELSE Num(((t.v + tzOffset) \div 3600) % 24)

\* `${String(hour).padStart(2, '0')}:00`
timeKey(hour) == padStart(String(hour), 2, "0") \o <<":", "0", "0">>

(***************************************************************************)
(* calculateMetrics (Logsv2).                                              *)
(***************************************************************************)
RECURSIVE Gcd(_, _)
Gcd(a, b) == IF b = 0 THEN a ELSE Gcd(b, a % b)

\* the exact value n / d, d > 0, n >= 0
Frac(n, d) == LET g == Gcd(n, d) IN [num |-> n \div g, den |-> d \div g]

\* latencies.reduce((a, b) => a + b, 0)
RECURSIVE SumLatency(_)
SumLatency(s) == IF s = <<>> THEN 0 ELSE Head(s).latency + SumLatency(Tail(s))

\* Math.max(...latencies), for a non-empty list
MaxLatency(s) ==
  LET vals == {s[i].latency : i \in 1..Len(s)}
  IN CHOOSE m \in vals : \A v \in vals : v <= m

\* Math.round(n / d), d > 0: the nearest integer, halves towards +infinity
MathFloorInstead(n, d) == n \div d
MathRound(n, d) == (2 * n + d) \div (2 * d)

\* const totalRequests = logs.length
totalRequestsSuccessOnly(logs_) == Len(SelectSeq(logs_, LAMBDA log : log.status < 400))
totalRequestsOf(logs_) == Len(logs_)

\* log => log.status >= 400
IsFailedStatusBySuccessFlag(log) == ~log.success
IsFailedStatus(log) == log.status >= 400

\* logs.filter(log => log.status >= 400).length
failedRequestsOf(logs_) == Len(SelectSeq(logs_, IsFailedStatus))

\* latencies.length > 0 ? Math.round(sum / latencies.length) : 0
avgLatencyOf(logs_) ==
  IF Len(logs_) > 0 THEN MathRound(SumLatency(logs_), Len(logs_)) ELSE 0

\* totalRequests > 0 ? ((totalRequests - failedRequests) / totalRequests) * 100 : 0
successRateUnguarded(totalRequests, failedRequests) ==
  IF totalRequests > 0
  THEN Frac((totalRequests - failedRequests) * 100, totalRequests)
  ELSE [num |-> 0, den |-> 0]   \* 0 / 0 is NaN
successRateOf(totalRequests, failedRequests) ==
  IF totalRequests > 0
  THEN Frac((totalRequests - failedRequests) * 100, totalRequests)
  ELSE Frac(0, 1)

\* latencies.length > 0 ? Math.max(...latencies) : 0
peakLatencyOf(logs_) == IF Len(logs_) > 0 THEN MaxLatency(logs_) ELSE 0

calculateMetricsAccumulating(logs_) ==
  [ metrics EXCEPT !.totalRequests = metrics.totalRequests + Len(logs_) ]
calculateMetrics(logs_) ==
  LET totalRequests == totalRequestsOf(logs_)
      failedRequests == failedRequestsOf(logs_)
  IN [ totalRequests  |-> totalRequests,
       failedRequests |-> failedRequests,
       avgLatency     |-> avgLatencyOf(logs_),
       uniqueIPs      |-> Cardinality({logs_[i].ip : i \in 1..Len(logs_)}),
       successRate    |-> successRateOf(totalRequests, failedRequests),
       peakLatency    |-> peakLatencyOf(logs_) ]

(***************************************************************************)
(* generateGraphData (Logsv2).                                             *)
(***************************************************************************)
\* one pass of logs.forEach: the entry of hourlyData for the record's key
AddToHourErrorsAlsoSuccess(hourlyData, log) ==
  LET key == timeKey(getHours(log.timestamp))
      old == IF key \in DOMAIN hourlyData
             THEN hourlyData[key]
             ELSE [requests |-> 0, errors |-> 0, success |-> 0]
      new == [ requests |-> old.requests + 1,
               errors   |-> old.errors + (IF log.status >= 400 THEN 1 ELSE 0),
               success  |-> old.success + 1 ]
  IN [k \in (DOMAIN hourlyData) \cup {key} |-> IF k = key THEN new ELSE hourlyData[k]]
AddToHour(hourlyData, log) ==
  LET key == timeKey(getHours(log.timestamp))
      old == IF key \in DOMAIN hourlyData
             THEN hourlyData[key]
             ELSE [requests |-> 0, errors |-> 0, success |-> 0]
      new == [ requests |-> old.requests + 1,
               errors   |-> old.errors + (IF log.status >= 400 THEN 1 ELSE 0),
               success  |-> old.success + (IF log.status >= 400 THEN 0 ELSE 1) ]
  IN [k \in (DOMAIN hourlyData) \cup {key} |-> IF k = key THEN new ELSE hourlyData[k]]

RECURSIVE GroupByHour(_, _)
GroupByHour(logs_, hourlyData) ==
  IF logs_ = <<>> THEN hourlyData
  ELSE GroupByHour(Tail(logs_), AddToHour(hourlyData, Head(logs_)))

EmptyHourlyData == [k \in {} |-> 0]

\* the loop for (i = 0; i < 24; i++): entry i + 1 of the result is hour i
generateGraphData(logs_) ==
  LET hourlyData == GroupByHour(logs_, EmptyHourlyData)
  IN [ i \in 1..24 |->
         LET key == timeKey(Num(i - 1))
             has == key \in DOMAIN hourlyData
         IN [ time     |-> key,
              requests |-> IF has THEN hourlyData[key].requests ELSE 0,
              errors   |-> IF has THEN hourlyData[key].errors ELSE 0,
              success  |-> IF has THEN hourlyData[key].success ELSE 0 ] ]

(***************************************************************************)
(* filteredLogs (Logsv2).                                                  *)
(***************************************************************************)
NoRange == [isNull |-> TRUE]
\* brushStartIndex and brushEndIndex are both null
NoBrush == [isNull |-> TRUE]
Brush(startIndex, endIndex) ==
  [isNull |-> FALSE, startIndex |-> startIndex, endIndex |-> endIndex]
Range(startTime, endTime) ==
  [isNull |-> FALSE, startTime |-> startTime, endTime |-> endTime]

\* selectedLog: null, or the record object that was clicked
NoLog == [isNull |-> TRUE]
Selected(log) == [isNull |-> FALSE, log |-> log]

(***************************************************************************)
(* StoryViewer: ten stories, each shown for storyDuration ms; a timer      *)
(* advances to the next story, and after the last one a second timer goes  *)
(* back to the first.  The viewer is the record                            *)
(*   [currentStory, progressInterval, timers];                             *)
(* a pending timer is [kind, id, left, story]: what its callback does, its *)
(* handle, the ms left until it is due, and the story it was set for.      *)
(***************************************************************************)
totalStories == 10
storyDuration == 5000
toastDuration == 2000
resetDelay == 2000

NoTimer == [isNull |-> TRUE]
Handle(id) == [isNull |-> FALSE, id |-> id]
Timer(kind, id, left, story) ==
  [kind |-> kind, id |-> id, left |-> left, story |-> story]

\* the handle setTimeout returns: one that names no pending timer and that
\* no variable still holds
FreshHandle(st) ==
  LET used == { st.timers[i].id : i \in 1..Len(st.timers) }
                \cup (IF st.progressInterval.isNull THEN {}
                      ELSE {st.progressInterval.id})
  IN CHOOSE id \in 1..(Len(st.timers) + 2) :
       /\ id \notin used
       /\ \A other \in 1..(Len(st.timers) + 2) : other \notin used => id <= other

\* clearTimeout(handle): a handle of a timer that has fired cancels nothing
clearTimeout(ts, handle) ==
  LET Keep(t) == t.id # handle.id
  IN IF handle.isNull THEN ts ELSE SelectSeq(ts, Keep)

startStoryProgress(st) ==
  LET id == FreshHandle(st)
  IN [st EXCEPT !.timers = Append(@, Timer("progress", id, storyDuration,
                                           st.currentStory)),
                !.progressInterval = Handle(id)]

updateStoryView(st) ==
  startStoryProgress(
    [st EXCEPT !.timers = IF st.progressInterval.isNull THEN @
                          ELSE clearTimeout(@, st.progressInterval)])

\* showToast: the toast is on the page until its timer removes it
showToast(st) ==
  [st EXCEPT !.timers = Append(@, Timer("toast", FreshHandle(st), toastDuration,
                                        st.currentStory))]

showStoryCompleteWithoutReset(st) == showToast(st)

showStoryComplete(st) ==
  LET toasted == showToast(st)
  IN [toasted EXCEPT !.timers = Append(@, Timer("reset", FreshHandle(toasted),
                                                resetDelay, st.currentStory))]

nextStory(st) ==
  IF st.currentStory < totalStories - 1
    THEN updateStoryView([st EXCEPT !.currentStory = @ + 1])
    ELSE showStoryComplete(st)

previousStory(st) ==
  IF st.currentStory > 0
    THEN updateStoryView([st EXCEPT !.currentStory = @ - 1])
    ELSE st

\* the callback showStoryComplete schedules
resetToFirstStory(st) == updateStoryView([st EXCEPT !.currentStory = 0])

\* new StoryViewer(): the constructor, then init() -> startStoryProgress()
StoryConstructed ==
  startStoryProgress([currentStory |-> 2, progressInterval |-> NoTimer,
                      timers |-> <<>>])

InitExtra ==
  /\ selectedLog = NoLog
  /\ currentPage = 1
  /\ currentStory = StoryConstructed.currentStory
  /\ progressInterval = StoryConstructed.progressInterval
  /\ timers = StoryConstructed.timers

Has(obj, key) == key \in DOMAIN obj

\* if (filters.search && !endpoint.toLowerCase().includes(search.toLowerCase()))
SearchRejects(log, filters_) ==
  /\ Has(filters_, "search")
  /\ filters_.search # <<>>
  /\ ~includes(toLowerCase(log.endpoint), toLowerCase(filters_.search))

\* if (filters.method !== 'all' && log.method !== filters.method)
MethodRejectsNoSentinel(log, filters_) ==
  IF Has(filters_, "method") THEN log.method # filters_.method ELSE TRUE
MethodRejectsInverted(log, filters_) ==
  IF Has(filters_, "method")
  THEN filters_.method # "all" /\ log.method = filters_.method
  ELSE TRUE
MethodRejects(log, filters_) ==
  IF Has(filters_, "method")
  THEN filters_.method # "all" /\ log.method # filters_.method
  ELSE TRUE   \* undefined !== 'all', and no method is undefined

\* if (filters.status !== 'all') { success: status >= 400; error: status < 400 }
StatusRejectsBySuccessFlag(log, filters_) ==
  /\ Has(filters_, "status")
  /\ \/ filters_.status = "success" /\ ~log.success
     \/ filters_.status = "error" /\ log.success
StatusRejects(log, filters_) ==
  /\ Has(filters_, "status")
  /\ \/ filters_.status = "success" /\ log.status >= 400
     \/ filters_.status = "error" /\ log.status < 400

\* if (selectedTimeRange) { ... currentHour < startHour || currentHour > endHour }
TimeRangeRejects(log, selectedTimeRange_) ==
  /\ ~selectedTimeRange_.isNull
  /\ LET logTimeKey == timeKey(getHours(log.timestamp))
         startHour == parseInt(splitColonFirst(selectedTimeRange_.startTime))
         endHour == parseInt(splitColonFirst(selectedTimeRange_.endTime))
         currentHour == parseInt(splitColonFirst(logTimeKey))
     IN JsLt(currentHour, startHour) \/ JsGt(currentHour, endHour)

PassesAnyCriterion(log, filters_, selectedTimeRange_) ==
  \/ ~SearchRejects(log, filters_)
  \/ ~MethodRejects(log, filters_)
  \/ ~StatusRejects(log, filters_)
  \/ ~TimeRangeRejects(log, selectedTimeRange_)
Passes(log, filters_, selectedTimeRange_) ==
  /\ ~SearchRejects(log, filters_)
  /\ ~MethodRejects(log, filters_)
  /\ ~StatusRejects(log, filters_)
  /\ ~TimeRangeRejects(log, selectedTimeRange_)

filteredLogs(logs_, filters_, selectedTimeRange_) ==
  LET keep(log) == Passes(log, filters_, selectedTimeRange_)
  IN SelectSeq(logs_, keep)


(***************************************************************************)
(* Records.                                                                *)
(***************************************************************************)
EpUsers == <<"/", "a", "p", "i", "/", "u", "s", "e", "r", "s">>
EpData == <<"/", "a", "p", "i", "/", "d", "a", "t", "a">>

LogRecord(gen, idx, timestamp, ip, method, endpoint, status, latency, success) ==
  [ gen |-> gen, idx |-> idx, timestamp |-> timestamp, ip |-> ip,
    method |-> method, endpoint |-> endpoint, status |-> status,
    latency |-> latency, success |-> success ]

\* Records a backend may deliver (API INTEGRATION GUIDE): the three records of
\* the worked example, a record of another day whose success flag disagrees
\* with its status, and a malformed record (unparseable timestamp, unknown
\* method, negative latency).
BackendRecords ==
  << LogRecord(0, 1, Iso(0, 10, 0, 0),
               "192.168.1.10", "GET", EpUsers, 200, 100, TRUE),
     LogRecord(0, 2, Iso(0, 10, 30, 0),
               "10.0.0.15", "POST", EpData, 500, 400, FALSE),
     LogRecord(0, 3, Iso(0, 11, 0, 0),
               "192.168.1.10", "GET", EpUsers, 404, 50, FALSE),
     LogRecord(0, 4, Iso(1, 10, 15, 0),
               "10.0.0.15", "POST", EpData, 200, 101, FALSE),
     LogRecord(0, 5, InvalidTimestamp,
               "192.168.1.10", "TRACE", EpUsers, 404, -5, FALSE) >>

BackendRecordSet == {BackendRecords[i] : i \in 1..Len(BackendRecords)}

\* all sequences over S of length at most n
SeqsUpTo(S, n) == UNION {[1..k -> S] : k \in 0..n}

\* UTC and UTC+05:30
TimeZoneOffsets == {0, 19800}

\* useState initial values (Logsv2)
InitialMetrics ==
  [ totalRequests |-> 12847, failedRequests |-> 342, avgLatency |-> 145,
    uniqueIPs |-> 1205, successRate |-> Frac(973, 10), peakLatency |-> 2840 ]

InitialFilters ==
  [search |-> <<>>, method |-> "all", status |-> "all", timeRange |-> "1h"]

(***************************************************************************)
(* SpecEngine: calculateMetrics and generateGraphData as functions of an   *)
(* arbitrary record sequence.  `logs` is the argument, drawn by Init;      *)
(* `applied` names the functions whose result is held in metrics/graphData.*)
(***************************************************************************)
InitEngine ==
  /\ variant = "Logsv2"
  /\ tzOffset \in TimeZoneOffsets
  /\ now = 0
  /\ fetches = 0
  /\ mounted = FALSE
  /\ logs \in SeqsUpTo(BackendRecordSet, MaxLen)
  /\ metrics = InitialMetrics
  /\ graphData = <<>>
  /\ isRealTime = FALSE
  /\ filters = InitialFilters
  /\ selectedTimeRange = NoRange
  /\ brush = NoBrush
  /\ intervals = 0
  /\ inFlight = FALSE
  /\ InitExtra
  /\ lastOp = "init"
  /\ batch = <<>>
  /\ applied = {}

ApplyCalculateMetrics ==
  /\ "calculateMetrics" \notin applied
  /\ metrics' = calculateMetrics(logs)
  /\ applied' = applied \cup {"calculateMetrics"}
  /\ lastOp' = "calculateMetrics"
  /\ UNCHANGED <<extraVars, variant, tzOffset, now, fetches, mounted, logs, graphData,
                 isRealTime, filters, selectedTimeRange, brush, intervals, inFlight, batch>>

ApplyGenerateGraphData ==
  /\ "generateGraphData" \notin applied
  /\ graphData' = generateGraphData(logs)
  /\ applied' = applied \cup {"generateGraphData"}
  /\ lastOp' = "generateGraphData"
  /\ UNCHANGED <<extraVars, variant, tzOffset, now, fetches, mounted, logs, metrics,
                 isRealTime, filters, selectedTimeRange, brush, intervals, inFlight, batch>>

NextEngine == ApplyCalculateMetrics \/ ApplyGenerateGraphData

SpecEngine == InitEngine /\ [][NextEngine]_vars


(***************************************************************************)
(* Claims about calculateMetrics and generateGraphData (SpecEngine).       *)
(***************************************************************************)
SummaryApplied == "calculateMetrics" \in applied
BucketsApplied == "generateGraphData" \in applied

\* indices of the records of `logs` satisfying a test
FailedByStatus == {i \in 1..Len(logs) : logs[i].status >= 400}
FailedByFlag == {i \in 1..Len(logs) : logs[i].success = FALSE}
FlagsAgree == \A i \in 1..Len(logs) : logs[i].success = (logs[i].status < 400)

\* C3: for every record sequence S, the summary's totalRequests is the
\* number of records of S.
C3_TotalIsCount == SummaryApplied => metrics.totalRequests = Len(logs)
C3_Witness == SummaryApplied /\ Len(logs) >= 2 /\ FailedByStatus # {}

\* C4 (as amended): failedRequests is the number of records whose status is
\* >= 400; it is the number of records whose success flag is false whenever
\* every record's flag agrees with its status.
C4_FailedIsStatusCount ==
  SummaryApplied =>
    /\ metrics.failedRequests = Cardinality(FailedByStatus)
    /\ FlagsAgree => metrics.failedRequests = Cardinality(FailedByFlag)
C4_Witness ==
  /\ SummaryApplied
  /\ ~FlagsAgree
  /\ Cardinality(FailedByStatus) = 1
  /\ Cardinality(FailedByFlag) = 2
\* C4 as stated: failedRequests is the number of records whose success field
\* is false, also when the flag disagrees with the status.
C4_Original == SummaryApplied => metrics.failedRequests = Cardinality(FailedByFlag)

\* C5: on the empty record sequence the summary is the zero summary:
\* totalRequests, failedRequests, avgLatency, successRate and peakLatency
\* are all 0 (successRate is the number 0, not 0/0).
C5_EmptyIsZero ==
  (SummaryApplied /\ logs = <<>>) =>
    /\ metrics.totalRequests = 0
    /\ metrics.failedRequests = 0
    /\ metrics.avgLatency = 0
    /\ metrics.successRate = [num |-> 0, den |-> 1]
    /\ metrics.peakLatency = 0
C5_Witness == SummaryApplied /\ logs = <<>>

LatencySum == SumLatency(logs)

\* C7 (as amended): avgLatency is the arithmetic mean of the latencies
\* rounded to the nearest integer, halves upwards (mean - 1/2 < avg <=
\* mean + 1/2), and 0 for the empty sequence; latencies 100, 400, 50 give 183.
C7_AvgIsRoundedMean ==
  SummaryApplied =>
    /\ logs = <<>> => metrics.avgLatency = 0
    /\ logs # <<>> =>
         /\ 2 * LatencySum - Len(logs) < 2 * Len(logs) * metrics.avgLatency
         /\ 2 * Len(logs) * metrics.avgLatency <= 2 * LatencySum + Len(logs)
    /\ [i \in 1..Len(logs) |-> logs[i].latency] = <<100, 400, 50>>
         => metrics.avgLatency = 183
C7_Witness ==
  /\ SummaryApplied
  /\ [i \in 1..Len(logs) |-> logs[i].latency] = <<100, 400, 50>>
  /\ metrics.avgLatency = 183
\* C7 as stated: avgLatency is the exact mean (avg * |S| = sum of latencies).
C7_Original ==
  (SummaryApplied /\ logs # <<>>) => metrics.avgLatency * Len(logs) = LatencySum

RECURSIVE SumRequests(_)
SumRequests(g) == IF g = <<>> THEN 0 ELSE Head(g).requests + SumRequests(Tail(g))
RECURSIVE SumErrors(_)
SumErrors(g) == IF g = <<>> THEN 0 ELSE Head(g).errors + SumErrors(Tail(g))

\* C8 as stated: for every record sequence, malformed records included, the
\* series has exactly 24 buckets labelled 00:00 .. 23:00 in order and the
\* buckets' request counts sum to |S|.
C8_Original ==
  BucketsApplied =>
    /\ Len(graphData) = 24
    /\ \A i \in 1..24 : graphData[i].time = timeKey(Num(i - 1))
    /\ SumRequests(graphData) = Len(logs)

\* the records of `logs` that fall in hour h (local time)
InHour(h) == {i \in 1..Len(logs) : getHours(logs[i].timestamp) = Num(h)}
HasHour == {i \in 1..Len(logs) : ~getHours(logs[i].timestamp).nan}

Variants == {"Logsv2", "APILogsDashboard", "TerminalAPILogsDashboard"}

\* the instant the page is opened: day 0, 23:30:00 UTC
StartTimes == {84600}
LatestTime == CHOOSE t \in StartTimes : TRUE

\* the random choices of the mock generators, cut down to two values each
Logsv2Choices ==
  { [status |-> 200, latency |-> 50], [status |-> 400, latency |-> 401],
    [status |-> 200, latency |-> 401] }
StreamChoices == {[status |-> 200, latency |-> 50], [status |-> 400, latency |-> 401]}

MockRecord(gen, idx, time, c) ==
  LogRecord(gen, idx, toISOString(time), "192.168.1.10", "GET", EpUsers,
            c.status, c.latency, c.status < 400)

\* the batches the mock can return at time now_; record i (from 0) is
\* stamped 30 minutes before record i - 1
mockApiData(now_, gen) ==
  { [i \in 1..FetchCount |-> MockRecord(gen, i, now_ - (i - 1) * 1800, c[i])] :
      c \in [1..FetchCount -> Logsv2Choices] }

\* catch (error) { return { logs: [] } }: what a failed request yields
FailedFetch == <<>>

\* fetchApiLogs(): the try block (where the endpoint call goes) returns the
\* data or throws, and the catch returns the empty list
fetchApiLogs(now_, gen) == mockApiData(now_, gen) \cup {FailedFetch}

\* (a, b) => new Date(b.timestamp) - new Date(a.timestamp); a NaN result is
\* treated by sort as 0
compareNewestFirst(a, b) ==
  LET x == DateOf(b.timestamp)
      y == DateOf(a.timestamp)
  IN IF x.nan \/ y.nan THEN 0 ELSE x.v - y.v

\* r placed into the sorted list after every element it does not precede
\* (Array.prototype.sort is stable)
RECURSIVE InsertSorted(_, _)
InsertSorted(sorted, r) ==
  IF sorted = <<>> THEN <<r>>
  ELSE IF compareNewestFirst(Head(sorted), r) <= 0
       THEN <<Head(sorted)>> \o InsertSorted(Tail(sorted), r)
       ELSE <<r>> \o sorted

RECURSIVE SortInto(_, _)
SortInto(sorted, rest) ==
  IF rest = <<>> THEN sorted
  ELSE SortInto(InsertSorted(sorted, Head(rest)), Tail(rest))

\* data.logs.sort(compareNewestFirst)
sortNewestFirst(s) == SortInto(<<>>, s)

\* setLogs(sortedLogs); setMetrics(calculateMetrics(sortedLogs));
\* setGraphData(generateGraphData(sortedLogs))
setAllAppending(data) ==
  LET sortedLogs == sortNewestFirst(data)
  IN /\ logs' = sortedLogs \o logs
     /\ metrics' = calculateMetrics(sortedLogs \o logs)
     /\ graphData' = generateGraphData(sortedLogs \o logs)
setAllStaleMetrics(data) ==
  LET sortedLogs == sortNewestFirst(data)
  IN /\ logs' = sortedLogs
     /\ metrics' = calculateMetrics(logs)
     /\ graphData' = generateGraphData(sortedLogs)
setAll(data) ==
  LET sortedLogs == sortNewestFirst(data)
  IN /\ logs' = sortedLogs
     /\ metrics' = calculateMetrics(sortedLogs)
     /\ graphData' = generateGraphData(sortedLogs)

\* the body shared by loadData, the interval callback and handleRefresh
Logsv2Ingest(op) ==
  /\ variant = "Logsv2"
  /\ \E data \in fetchApiLogs(now, fetches + 1) :
       /\ setAll(data)
       /\ batch' = data
  /\ fetches' = fetches + 1
  /\ applied' = {"calculateMetrics", "generateGraphData"}
  /\ lastOp' = op
  /\ UNCHANGED <<extraVars, variant, tzOffset, now, isRealTime, filters, selectedTimeRange,
               brush, intervals>>

\* useEffect "Initialize data"
LoadData ==
  /\ ~mounted
  /\ mounted' = TRUE
  /\ UNCHANGED inFlight
  /\ Logsv2Ingest("loadData")

\* the interval fires: the async callback starts and awaits fetchApiLogs()
IntervalFires ==
  /\ variant = "Logsv2"
  /\ mounted
  /\ intervals > 0
  /\ ~inFlight
  /\ fetches <= MaxFetches
  /\ inFlight' = TRUE
  /\ UNCHANGED <<extraVars, variant, tzOffset, now, fetches, mounted, logs, metrics, graphData,
                 isRealTime, filters, selectedTimeRange, brush, intervals, lastOp,
                 batch, applied>>

\* the rest of the interval callback, once the awaited fetch has settled
RealTimeTick ==
  /\ inFlight
  /\ inFlight' = FALSE
  /\ UNCHANGED mounted
  /\ Logsv2Ingest("realTimeTick")

HandleRefresh ==
  /\ mounted
  /\ fetches <= MaxFetches
  /\ UNCHANGED <<mounted, inFlight>>
  /\ Logsv2Ingest("handleRefresh")

\* the "Real-time updates" effect re-run for a new isRealTime: the cleanup
\* of the previous run clears the interval that run made, then a new
\* interval is set if isRealTime_ is true
realTimeEffect(wasRealTime, isRealTime_, live) ==
  LET cleared == IF wasRealTime THEN live - 1 ELSE live
  IN IF isRealTime_ THEN cleared + 1 ELSE cleared

\* onClick={() => setIsRealTime(!isRealTime)}, in every dashboard
ToggleRealTime ==
  /\ mounted
  /\ isRealTime' = ~isRealTime
  /\ intervals' = realTimeEffect(isRealTime, ~isRealTime, intervals)
  /\ UNCHANGED <<extraVars, variant, tzOffset, now, fetches, mounted, logs, metrics, graphData,
                 filters, selectedTimeRange, brush, inFlight, lastOp, batch,
                 applied>>

\* thirty minutes pass
ClockStep ==
  /\ now + 1800 <= LatestTime + 1800 * MaxClockSteps
  /\ now' = now + 1800
  /\ UNCHANGED <<extraVars, variant, tzOffset, fetches, mounted, logs, metrics, graphData,
                 isRealTime, filters, selectedTimeRange, brush, intervals, inFlight, lastOp, batch,
                 applied>>

(***************************************************************************)
(* APILogsDashboard (streaming).                                           *)
(***************************************************************************)
\* Array.from({ length: 24 }, ...) of random counts; the model draws one
\* triple for all 24 buckets
StreamGraphSeeds ==
  { [requests |-> 100, errors |-> 10, success |-> 50],
    [requests |-> 599, errors |-> 59, success |-> 499] }
SeededGraph(seed) ==
  [ i \in 1..24 |->
      [ time |-> timeKey(Num(i - 1)), requests |-> seed.requests,
        errors |-> seed.errors, success |-> seed.success ] ]

\* useEffect "Initialize data": 20 generated logs and a random chart
StreamInit ==
  /\ variant = "APILogsDashboard"
  /\ ~mounted
  /\ mounted' = TRUE
  /\ \E c \in [1..InitialStreamCount -> StreamChoices] :
       LET initialLogs == [i \in 1..InitialStreamCount |-> MockRecord(0, i, now, c[i])]
       IN /\ logs' = initialLogs
          /\ batch' = initialLogs
  /\ \E seed \in StreamGraphSeeds : graphData' = SeededGraph(seed)
  /\ lastOp' = "streamInit"
  /\ UNCHANGED <<extraVars, variant, tzOffset, now, fetches, metrics, isRealTime, filters,
                 selectedTimeRange, brush, intervals, inFlight, applied>>

\* prev.slice(0, n)
slice0OneMore(s, n) == SubSeq(s, 1, IF Len(s) < n + 1 THEN Len(s) ELSE n + 1)
slice0(s, n) == SubSeq(s, 1, IF Len(s) < n THEN Len(s) ELSE n)

\* Math.floor(prev.avgLatency * 0.95 + newLog.latency * 0.05)
smoothedLatency(prevAvg, latency) == (95 * prevAvg + 5 * latency) \div 100

\* the setMetrics updater of the interval callback
streamMetrics(prev, newLog, ipInc) ==
  [ prev EXCEPT
      !.totalRequests = prev.totalRequests + 1,
      !.failedRequests = prev.failedRequests + (IF newLog.status >= 400 THEN 1 ELSE 0),
      !.avgLatency = smoothedLatency(prev.avgLatency, newLog.latency),
      !.uniqueIPs = prev.uniqueIPs + ipInc,
      !.successRate =
         Frac((prev.totalRequests - prev.failedRequests) * 100,
              prev.totalRequests + 1) ]

\* the setGraphData updater: the last bucket grows
streamGraph(prev, newLog, requestInc) ==
  [ prev EXCEPT
      ![Len(prev)] =
        [ @ EXCEPT
            !.requests = @ + requestInc,
            !.errors = @ + (IF newLog.status >= 400 THEN 1 ELSE 0),
            !.success = @ + (IF newLog.status < 400 THEN 1 ELSE 0) ] ]

\* Math.floor(Math.random() * 10) + 1, cut down to its extremes
RequestIncs == {1, 10}

\* the setInterval callback of the "Real-time updates" effect
StreamTick ==
  /\ variant = "APILogsDashboard"
  /\ mounted /\ isRealTime
  /\ fetches < MaxFetches
  /\ \E c \in StreamChoices, ipInc \in {0, 1} :
       LET newLog == MockRecord(fetches + 1, 1, now, c)
       IN /\ logs' = <<newLog>> \o slice0(logs, StreamCap - 1)
          /\ metrics' = streamMetrics(metrics, newLog, ipInc)
          /\ batch' = <<newLog>>
          /\ \/ UNCHANGED graphData             \* Math.random() <= 0.7
             \/ \E requestInc \in RequestIncs :
                  graphData' = streamGraph(graphData, newLog, requestInc)
  /\ fetches' = fetches + 1
  /\ lastOp' = "streamTick"
  /\ UNCHANGED <<extraVars, variant, tzOffset, now, mounted, isRealTime, filters,
                 selectedTimeRange, brush, intervals, inFlight, applied>>

(***************************************************************************)
(* TerminalAPILogsDashboard (streaming).                                   *)
(***************************************************************************)
TerminalInitialMetrics ==
  [ totalRequests |-> 847293, failedRequests |-> 12847, avgLatency |-> 178,
    uniqueIPs |-> 2847, successRate |-> Frac(985, 10), peakLatency |-> 3245 ]

\* generateGraphData() of this component: random counts, no success field
TerminalGraphSeeds ==
  {[requests |-> 50, errors |-> 1], [requests |-> 149, errors |-> 10]}
TerminalGraph(seed) ==
  [ i \in 1..24 |->
      [time |-> timeKey(Num(i - 1)), requests |-> seed.requests, errors |-> seed.errors] ]

\* generateMockData(): record i (from 0) is stamped 5 seconds before i - 1
generateMockData(now_, gen) ==
  { [i \in 1..TerminalCap |-> MockRecord(gen, i, now_ - (i - 1) * 5, c[i])] :
      c \in [1..TerminalCap -> StreamChoices] }

\* useEffect "Initialize data"
TerminalInit ==
  /\ variant = "TerminalAPILogsDashboard"
  /\ ~mounted
  /\ mounted' = TRUE
  /\ \E mockLogs \in generateMockData(now, 0) :
       /\ logs' = mockLogs
       /\ batch' = mockLogs
  /\ \E seed \in TerminalGraphSeeds : graphData' = TerminalGraph(seed)
  /\ lastOp' = "terminalInit"
  /\ UNCHANGED <<extraVars, variant, tzOffset, now, fetches, metrics, isRealTime, filters,
                 selectedTimeRange, brush, intervals, inFlight, applied>>

\* Math.floor(Math.random() * 5) + 1, cut down to its extremes
TotalIncs == {1, 5}

\* the setInterval callback of the "Real-time simulation" effect
TerminalTick ==
  /\ variant = "TerminalAPILogsDashboard"
  /\ mounted /\ isRealTime
  /\ fetches < MaxFetches
  /\ \E mockLogs \in generateMockData(now, fetches + 1), inc \in TotalIncs :
       LET newLog == [mockLogs[1] EXCEPT !.timestamp = toISOString(now)]
       IN /\ logs' = <<newLog>> \o slice0(logs, TerminalCap - 1)
          /\ metrics' = [metrics EXCEPT !.totalRequests = @ + inc]
          /\ batch' = <<newLog>>
  /\ fetches' = fetches + 1
  /\ lastOp' = "terminalTick"
  /\ UNCHANGED <<extraVars, variant, tzOffset, now, mounted, graphData, isRealTime, filters,
                 selectedTimeRange, brush, intervals, inFlight, applied>>

Init ==
  /\ variant \in Variants
  /\ tzOffset \in (IF variant = "Logsv2" THEN TimeZoneOffsets ELSE {0})
  /\ now \in StartTimes
  /\ fetches = 0
  /\ mounted = FALSE
  /\ logs = <<>>
  /\ metrics = (IF variant = "TerminalAPILogsDashboard"
                THEN TerminalInitialMetrics ELSE InitialMetrics)
  /\ graphData = <<>>
  /\ isRealTime = FALSE
  /\ filters = InitialFilters
  /\ selectedTimeRange = NoRange
  /\ brush = NoBrush
  /\ intervals = 0
  /\ inFlight = FALSE
  /\ InitExtra
  /\ lastOp = "init"
  /\ batch = <<>>
  /\ applied = {}

Next ==
  \/ LoadData
  \/ IntervalFires
  \/ RealTimeTick
  \/ HandleRefresh
  \/ ToggleRealTime
  \/ ClockStep
  \/ StreamInit
  \/ StreamTick
  \/ TerminalInit
  \/ TerminalTick

Spec == Init /\ [][Next]_vars


(***************************************************************************)
(* Claims about ingestion in the dashboards (Spec).                        *)
(***************************************************************************)
Logsv2IngestOps == {"loadData", "realTimeTick", "handleRefresh"}
TickOps == {"streamTick", "terminalTick"}
IngestOps == Logsv2IngestOps \cup TickOps \cup {"streamInit", "terminalInit"}

RecordsOf(s) == {s[i] : i \in 1..Len(s)}

\* C1 (as amended): in Logsv2 an ingestion (initial load, timer tick, manual
\* refresh) with batch R replaces the list: afterwards it holds exactly the
\* records of R and none made by an earlier fetch.  In the streaming
\* dashboards a timer tick prepends its one new record and keeps earlier ones.
C1_ReplaceInLogsv2 ==
  /\ lastOp \in Logsv2IngestOps =>
       /\ RecordsOf(logs) = RecordsOf(batch)
       /\ Len(logs) = Len(batch)
       /\ \A i \in 1..Len(logs) : logs[i].gen = fetches
  /\ lastOp \in TickOps =>
       /\ batch = <<Head(logs)>>
       /\ Head(logs).gen = fetches
       /\ \A i \in 2..Len(logs) : logs[i].gen < fetches
C1_Witness ==
  /\ variant = "Logsv2"
  /\ lastOp = "realTimeTick"
  /\ fetches >= 2
  /\ Len(logs) = FetchCount
\* C1 as stated: in every variant, after any ingestion with batch R the list
\* is exactly R and no earlier record remains.
C1_Original ==
  lastOp \in IngestOps =>
    /\ RecordsOf(logs) = RecordsOf(batch)
    /\ Len(logs) = Len(batch)
    /\ \A i \in 1..Len(logs) : logs[i].gen = fetches

\* C2 (as amended): in Logsv2, after every ingestion the stored metrics and
\* hourly series are the values computed from scratch over the current list.
\* APILogsDashboard's tick instead adds to the previous metrics, so its
\* totalRequests is the initial figure plus the number of ticks, not |logs|.
C2_RecomputedInLogsv2 ==
  /\ lastOp \in Logsv2IngestOps =>
       /\ metrics = calculateMetrics(logs)
       /\ graphData = generateGraphData(logs)
  /\ lastOp = "streamTick" =>
       metrics.totalRequests = InitialMetrics.totalRequests + fetches
C2_Witness ==
  /\ lastOp = "handleRefresh"
  /\ fetches >= 2
  /\ metrics.failedRequests >= 1
  /\ metrics.failedRequests < metrics.totalRequests
\* C2 as stated, for Logsv2's ingestions and APILogsDashboard's real-time
\* update: the stored metrics and series are those computed from scratch.
C2_Original ==
  lastOp \in Logsv2IngestOps \cup {"streamTick"} =>
    /\ metrics = calculateMetrics(logs)
    /\ graphData = generateGraphData(logs)

\* C6 as stated: after an ingestion (Logsv2) or a real-time update
\* (APILogsDashboard) with totalRequests > 0, the stored successRate is
\* (totalRequests - failedRequests) / totalRequests * 100 of the stored
\* totalRequests and failedRequests.
C6_Original ==
  (lastOp \in Logsv2IngestOps \cup {"streamTick"} /\ metrics.totalRequests > 0) =>
    metrics.successRate
      = Frac((metrics.totalRequests - metrics.failedRequests) * 100,
             metrics.totalRequests)


(***************************************************************************)
(* SpecFilter: Logsv2 showing an arbitrary record list while the user      *)
(* works the FilterBar and the chart brush.  filteredLogs is computed on   *)
(* every render from logs, filters and selectedTimeRange.                  *)
(***************************************************************************)
FilteredLogs == filteredLogs(logs, filters, selectedTimeRange)

SearchTexts == {<<>>, <<"U", "S", "E", "R">>, <<"g", "e", "t">>}
MethodOptions == {"all", "GET"}
StatusOptions == {"all", "success", "error"}
TimeRangeOptions == {"24h"}
\* chart indices the brush can report (hours 10 and 11)
BrushIndices == {10, 11}

\* the records listed while the filters are used: every method, both status
\* classes, hours 10 and 11, the disagreeing success flag and the
\* unparseable timestamp
FilterRecordSet == BackendRecordSet \ {BackendRecords[2]}

InitFilter ==
  /\ variant = "Logsv2"
  /\ tzOffset = 0
  /\ now = 0
  /\ fetches = 0
  /\ mounted = TRUE
  /\ logs \in SeqsUpTo(FilterRecordSet, MaxFilterLen)
  /\ metrics = calculateMetrics(logs)
  /\ graphData = generateGraphData(logs)
  /\ isRealTime = FALSE
  /\ filters = InitialFilters
  /\ selectedTimeRange = NoRange
  /\ brush = NoBrush
  /\ intervals = 0
  /\ inFlight = FALSE
  /\ InitExtra
  /\ lastOp = "init"
  /\ batch = logs
  /\ applied = {"calculateMetrics", "generateGraphData"}

\* { ...filters, [key]: value }
withKey(obj, key, value) ==
  [k \in (DOMAIN obj) \cup {key} |-> IF k = key THEN value ELSE obj[k]]
\* delete newFilters[key]
withoutKey(obj, key) == [k \in (DOMAIN obj) \ {key} |-> obj[k]]

FilterFrame ==
  UNCHANGED <<extraVars, variant, tzOffset, now, fetches, mounted, logs, metrics, graphData,
              isRealTime, intervals, inFlight, lastOp, batch, applied>>

\* FilterBar.handleSearchChange -> setFilters
HandleSearchChange ==
  /\ \E value \in SearchTexts : filters' = withKey(filters, "search", value)
  /\ UNCHANGED <<selectedTimeRange, brush>>
  /\ FilterFrame

\* FilterBar.handleFilterChange(key, value) -> setFilters
HandleFilterChange ==
  /\ \/ \E value \in MethodOptions : filters' = withKey(filters, "method", value)
     \/ \E value \in StatusOptions : filters' = withKey(filters, "status", value)
     \/ \E value \in TimeRangeOptions : filters' = withKey(filters, "timeRange", value)
  /\ UNCHANGED <<selectedTimeRange, brush>>
  /\ FilterFrame

\* the chips: entries with key !== 'search' && value !== 'all' && value
activeFilters(filters_) ==
  {key \in (DOMAIN filters_) \ {"search"} : filters_[key] # "all"}

\* FilterBar.removeFilter(key), from a chip's button
RemoveFilter ==
  /\ \E key \in activeFilters(filters) : filters' = withoutKey(filters, key)
  /\ UNCHANGED <<selectedTimeRange, brush>>
  /\ FilterFrame

\* Logsv2.handleTimeRangeSelect(startTime, endTime); NoRange stands for null
handleTimeRangeSelect(startTime, endTime) ==
  selectedTimeRange' =
    IF startTime # <<>> /\ endTime # <<>> THEN Range(startTime, endTime) ELSE NoRange

\* ChartSection.handleBrushChange({startIndex, endIndex}); the Brush
\* component is not part of the repository: any pair of indices
HandleBrushChange ==
  /\ \E startIndex \in BrushIndices, endIndex \in BrushIndices :
       LET startTime == IF startIndex + 1 \in DOMAIN graphData
                        THEN graphData[startIndex + 1].time ELSE <<>>
           endTime == IF endIndex + 1 \in DOMAIN graphData
                      THEN graphData[endIndex + 1].time ELSE <<>>
       IN /\ brush' = Brush(startIndex, endIndex)
          /\ IF startTime # <<>> /\ endTime # <<>>
             THEN handleTimeRangeSelect(startTime, endTime)
             ELSE UNCHANGED selectedTimeRange
  /\ UNCHANGED filters
  /\ FilterFrame

\* ChartSection.resetBrush, from the button shown while a brush selection
\* exists: onTimeRangeSelect(null, null)
ResetBrush ==
  /\ ~brush.isNull
  /\ brush' = NoBrush
  /\ handleTimeRangeSelect(<<>>, <<>>)
  /\ UNCHANGED filters
  /\ FilterFrame

\* Logsv2.resetFilters ("Clear all")
ResetFiltersKeepingRange ==
  /\ filters' = InitialFilters
  /\ UNCHANGED <<selectedTimeRange, brush>>
  /\ FilterFrame
ResetFilters ==
  /\ filters' = InitialFilters
  /\ selectedTimeRange' = NoRange
  /\ UNCHANGED brush
  /\ FilterFrame

NextFilter ==
  \/ HandleSearchChange
  \/ HandleFilterChange
  \/ RemoveFilter
  \/ HandleBrushChange
  \/ ResetBrush
  \/ ResetFilters

SpecFilter == InitFilter /\ [][NextFilter]_vars

(***************************************************************************)
(* Claims about filteredLogs (SpecFilter).                                 *)
(***************************************************************************)
NoCriteria ==
  /\ Has(filters, "search") /\ filters.search = <<>>
  /\ Has(filters, "method") /\ filters.method = "all"
  /\ Has(filters, "status") /\ filters.status = "all"
  /\ selectedTimeRange.isNull

\* C10: with no criteria set (empty search, method 'all', status 'all', no
\* hour range) the filtered view is the full record list, same elements in
\* the same order.
C10_NoCriteriaIsIdentity == NoCriteria => FilteredLogs = logs
C10_Witness ==
  /\ NoCriteria
  /\ Len(logs) = 2
  /\ logs[1].method # logs[2].method
  /\ logs[1].status < 400 /\ logs[2].status >= 400
  /\ Has(filters, "timeRange") /\ filters.timeRange = "24h"
  /\ FilteredLogs = logs


\* the match-everything value of a criterion
Sentinel(key) == IF key = "search" THEN <<>> ELSE "all"
SentinelCriteria == [search |-> <<>>, method |-> "all", status |-> "all"]
\* the criteria in which only `key` is as the user left it
OnlyKey(key) ==
  IF Has(filters, key)
  THEN withKey(SentinelCriteria, key, filters[key])
  ELSE withoutKey(SentinelCriteria, key)
BySearch == filteredLogs(logs, OnlyKey("search"), NoRange)
ByMethod == filteredLogs(logs, OnlyKey("method"), NoRange)
ByStatus == filteredLogs(logs, OnlyKey("status"), NoRange)
ByRange == filteredLogs(logs, SentinelCriteria, selectedTimeRange)

\* C11 as stated: a criteria object in which a key is absent (its chip was
\* removed) gives the same filtered view as one holding the key's sentinel.
C11_Original ==
  \A key \in {"search", "method", "status"} :
    ~Has(filters, key) =>
      FilteredLogs
        = filteredLogs(logs, withKey(filters, key, Sentinel(key)), selectedTimeRange)

\* C12: the criteria combine with AND: a record is in the filtered view iff
\* none of the search, method, status and hour-range predicates rejects it,
\* and the view is the intersection of the four single-criterion views.
C12_CriteriaCombineWithAnd ==
  /\ FilteredLogs
       = SelectSeq(logs, LAMBDA r : /\ ~SearchRejects(r, filters)
                                    /\ ~MethodRejects(r, filters)
                                    /\ ~StatusRejects(r, filters)
                                    /\ ~TimeRangeRejects(r, selectedTimeRange))
  /\ LET inAll == RecordsOf(BySearch) \cap RecordsOf(ByMethod)
                    \cap RecordsOf(ByStatus) \cap RecordsOf(ByRange)
     IN FilteredLogs = SelectSeq(logs, LAMBDA r : r \in inAll)
C12_Witness ==
  /\ Has(filters, "method") /\ filters.method = "GET"
  /\ Has(filters, "status") /\ filters.status = "error"
  /\ Len(logs) = 2
  /\ Len(ByMethod) = 1
  /\ Len(ByStatus) = 1
  /\ FilteredLogs = <<>>


\* only the named criterion is set
OnlySet(key) ==
  /\ \A k \in {"search", "method", "status"} :
       Has(filters, k) /\ (filters[k] = Sentinel(k) <=> k # key)
  /\ selectedTimeRange.isNull

\* C13: with method = M the view holds only records whose method is exactly
\* M, and with the records whose method differs from M it partitions the
\* list: |view| + |{r : r.method # M}| = |logs|.
C13_MethodFilterPartitions ==
  (Has(filters, "method") /\ filters.method # "all") =>
    /\ \A i \in 1..Len(ByMethod) : ByMethod[i].method = filters.method
    /\ Len(ByMethod) + Len(SelectSeq(logs, LAMBDA r : r.method # filters.method))
         = Len(logs)
    /\ OnlySet("method") => FilteredLogs = ByMethod
C13_Witness ==
  /\ OnlySet("method")
  /\ filters.method = "GET"
  /\ Len(logs) = 2
  /\ logs[1].method = "POST"
  /\ logs[2].method = "GET"
  /\ FilteredLogs = <<logs[2]>>

StatusView(class) ==
  filteredLogs(logs, withKey(SentinelCriteria, "status", class), NoRange)

\* C14: 'success' keeps exactly the records with status < 400, 'error' exactly
\* those with status >= 400; the two views are disjoint and together hold
\* every record, and 'all' keeps every record.
C14_StatusClassPartition ==
  /\ StatusView("success") = SelectSeq(logs, LAMBDA r : r.status < 400)
  /\ StatusView("error") = SelectSeq(logs, LAMBDA r : r.status >= 400)
  /\ StatusView("all") = logs
  /\ RecordsOf(StatusView("success")) \cap RecordsOf(StatusView("error")) = {}
  /\ Len(StatusView("success")) + Len(StatusView("error")) = Len(logs)
  /\ Has(filters, "status") => ByStatus = StatusView(filters.status)
  /\ OnlySet("status") => FilteredLogs = ByStatus
C14_Witness ==
  /\ OnlySet("status")
  /\ filters.status = "error"
  /\ Len(logs) = 2
  /\ logs[1].status < 400 /\ ~logs[1].success
  /\ logs[2].status >= 400
  /\ FilteredLogs = <<logs[2]>>


\* the characters of the method and ip values of the backend records
CharsOf(str) ==
  CASE str = "GET" -> <<"G", "E", "T">>
    [] str = "POST" -> <<"P", "O", "S", "T">>
    [] str = "TRACE" -> <<"T", "R", "A", "C", "E">>
    [] str = "192.168.1.10"
         -> <<"1", "9", "2", ".", "1", "6", "8", ".", "1", ".", "1", "0">>
    [] str = "10.0.0.15" -> <<"1", "0", ".", "0", ".", "0", ".", "1", "5">>
\* the fields the base dashboard's search box names: endpoints, IPs, methods
AdvertisedFields(r) == {r.endpoint, CharsOf(r.ip), CharsOf(r.method)}
MatchesIgnoringCase(field, text) == includes(toLowerCase(field), toLowerCase(text))

\* C15 as stated, for the base dashboard: with a search text, a record is in
\* the search-only view iff at least one advertised field (endpoint, IP,
\* method) contains the text ignoring case.
C15_Original ==
  (Has(filters, "search") /\ filters.search # <<>>) =>
    \A i \in 1..Len(logs) :
      logs[i] \in RecordsOf(BySearch)
        <=> \E field \in AdvertisedFields(logs[i]) :
              MatchesIgnoringCase(field, filters.search)


\* the hours of the selected range
StartHour == parseInt(splitColonFirst(selectedTimeRange.startTime)).v
EndHour == parseInt(splitColonFirst(selectedTimeRange.endTime)).v
InRange(h) == ~h.nan /\ StartHour <= h.v /\ h.v <= EndHour

\* C16 as stated: with a range [startHour, endHour], startHour <= endHour, a
\* record is in the range-only view iff its hour of day lies in the range
\* (both ends included), so a range [h, h] keeps exactly the records counted
\* in hourly bucket h.
C16_Original ==
  (~selectedTimeRange.isNull /\ StartHour <= EndHour) =>
    /\ \A i \in 1..Len(logs) :
         logs[i] \in RecordsOf(ByRange) <=> InRange(getHours(logs[i].timestamp))
    /\ StartHour = EndHour => Len(ByRange) = graphData[StartHour + 1].requests

\* C17 as stated: an inverted range (startHour > endHour) gives an empty
\* filtered view for every record list.
C17_Original ==
  (~selectedTimeRange.isNull /\ StartHour > EndHour) => FilteredLogs = <<>>


(***************************************************************************)
(* SpecQueries: the three read operations (calculateMetrics,               *)
(* generateGraphData, the render's logs.filter) called in any order and    *)
(* any number of times on a fixed record list and fixed criteria.          *)
(***************************************************************************)
QueryCriteria ==
  { InitialFilters,
    [search |-> <<"U", "S", "E", "R">>, method |-> "GET", status |-> "success",
     timeRange |-> "1h"] }
QueryRanges == {NoRange, Range(timeKey(Num(10)), timeKey(Num(11)))}

InitQueries ==
  /\ variant = "Logsv2"
  /\ tzOffset \in TimeZoneOffsets
  /\ now = 0
  /\ fetches = 0
  /\ mounted = TRUE
  /\ logs \in SeqsUpTo(FilterRecordSet, MaxFilterLen)
  /\ metrics = InitialMetrics
  /\ graphData = <<>>
  /\ isRealTime = FALSE
  /\ filters \in QueryCriteria
  /\ selectedTimeRange \in QueryRanges
  /\ brush = NoBrush
  /\ intervals = 0
  /\ inFlight = FALSE
  /\ InitExtra
  /\ lastOp = "init"
  /\ batch = logs
  /\ applied = {}

\* the name a call is recorded under: a repeated call is told apart
Again ==
  [ calculateMetrics |-> "calculateMetrics again",
    generateGraphData |-> "generateGraphData again",
    filteredLogs |-> "filteredLogs again" ]
CallName(f) == IF f \in applied THEN Again[f] ELSE f

QueryFrame ==
  UNCHANGED <<extraVars, variant, tzOffset, now, fetches, mounted, isRealTime, brush, intervals, inFlight, batch>>

\* calculateMetrics(logs): reads logs, returns a new object
ComputeSummarySortingInPlace ==
  /\ metrics' = calculateMetrics(logs)
  /\ logs' = sortNewestFirst(logs)
  /\ lastOp' = CallName("calculateMetrics")
  /\ applied' = applied \cup {"calculateMetrics"}
  /\ UNCHANGED <<graphData, filters, selectedTimeRange>>
  /\ QueryFrame
ComputeSummary ==
  /\ metrics' = calculateMetrics(logs)
  /\ lastOp' = CallName("calculateMetrics")
  /\ applied' = applied \cup {"calculateMetrics"}
  /\ UNCHANGED <<logs, graphData, filters, selectedTimeRange>>
  /\ QueryFrame

\* generateGraphData(logs): reads logs, returns a new array
ComputeBuckets ==
  /\ graphData' = generateGraphData(logs)
  /\ lastOp' = CallName("generateGraphData")
  /\ applied' = applied \cup {"generateGraphData"}
  /\ UNCHANGED <<logs, metrics, filters, selectedTimeRange>>
  /\ QueryFrame

\* const filteredLogs = logs.filter(...): Array.filter returns a new array
ComputeFilteredLogs ==
  /\ lastOp' = CallName("filteredLogs")
  /\ applied' = applied \cup {"filteredLogs"}
  /\ UNCHANGED <<logs, metrics, graphData, filters, selectedTimeRange>>
  /\ QueryFrame

NextQueries ==
  \/ ComputeSummary
  \/ ComputeBuckets
  \/ ComputeFilteredLogs

SpecQueries == InitQueries /\ [][NextQueries]_vars

RECURSIVE IsSubsequence(_, _)
IsSubsequence(a, b) ==
  IF a = <<>> THEN TRUE
  ELSE IF b = <<>> THEN FALSE
  ELSE IF Head(a) = Head(b) THEN IsSubsequence(Tail(a), Tail(b))
  ELSE IsSubsequence(a, Tail(b))

\* C18: the filtered view is a subsequence of the record list in its stored
\* order, and computing the view, the summary or the hourly buckets leaves
\* the record list and the filter criteria unchanged.
C18_QueriesAreReadOnly ==
  /\ []("filteredLogs" \in applied => IsSubsequence(FilteredLogs, logs))
  /\ [][UNCHANGED <<logs, filters, selectedTimeRange>>]_vars
C18_Witness ==
  /\ applied = {"calculateMetrics", "generateGraphData", "filteredLogs"}
  /\ Len(logs) = 2
  /\ logs[1].timestamp.valid /\ logs[2].timestamp.valid
  /\ DateOf(logs[1].timestamp).v < DateOf(logs[2].timestamp).v
  /\ Len(FilteredLogs) = 1
  /\ filters # InitialFilters

C20_Original ==
  variant = "Logsv2" =>
    /\ metrics = calculateMetrics(logs)
    /\ graphData = generateGraphData(logs)


\* SummaryCards, 'Error Rate': (metrics.failedRequests / metrics.totalRequests) * 100
\* (0 / 0 is NaN, n / 0 is Infinity)
errorRateCard(metrics_) ==
  IF metrics_.totalRequests = 0
  THEN [ kind |-> IF metrics_.failedRequests = 0 THEN "NaN" ELSE "Infinity",
         value |-> Frac(0, 1) ]
  ELSE [ kind |-> "finite",
         value |-> Frac(metrics_.failedRequests * 100, metrics_.totalRequests) ]

ZeroFilled(g) ==
  /\ Len(g) = 24
  /\ \A i \in 1..24 : g[i].requests = 0 /\ g[i].errors = 0 /\ g[i].success = 0

\* C21 as stated: after a failed fetch is ingested the record list is empty
\* and every output shown is a defined empty or zero value: the summary, the
\* error-rate card, the hourly buckets and the filtered list.
C21_Original ==
  (lastOp \in Logsv2IngestOps /\ batch = FailedFetch) =>
    /\ logs = <<>>
    /\ metrics.totalRequests = 0 /\ metrics.failedRequests = 0
    /\ metrics.avgLatency = 0 /\ metrics.successRate = Frac(0, 1)
    /\ ZeroFilled(graphData)
    /\ FilteredLogs = <<>>
    /\ errorRateCard(metrics) = [kind |-> "finite", value |-> Frac(0, 1)]


InitInspector ==
  /\ Init
  /\ variant = "Logsv2"
  /\ tzOffset = 0

InspectorFrame ==
  UNCHANGED <<currentPage, storyVars, variant, tzOffset, now, fetches, mounted, logs, metrics, graphData,
              isRealTime, filters, selectedTimeRange, brush, intervals, inFlight,
              lastOp, batch, applied>>

\* onLogSelect={setSelectedLog}: a row of the table (filteredLogs) is clicked
SelectLog ==
  /\ mounted
  /\ \E i \in 1..Len(FilteredLogs) : selectedLog' = Selected(FilteredLogs[i])
  /\ InspectorFrame

\* onClose={() => setSelectedLog(null)}
CloseInspector ==
  /\ ~selectedLog.isNull
  /\ selectedLog' = NoLog
  /\ InspectorFrame

NextInspector ==
  \/ LoadData
  \/ HandleRefresh
  \/ ToggleRealTime
  \/ IntervalFires
  \/ RealTimeTick
  \/ SelectLog
  \/ CloseInspector

SpecInspector == InitInspector /\ [][NextInspector]_vars

\* C23 as stated: selectedLog is null or one of the records in logs.
C23_Original == selectedLog.isNull \/ selectedLog.log \in RecordsOf(logs)


\* C24 as stated: the chart shows a brush selection iff selectedTimeRange is
\* set, and the two denote the same start and end hours.
C24_Original ==
  /\ brush.isNull <=> selectedTimeRange.isNull
  /\ ~brush.isNull =>
       /\ selectedTimeRange.startTime = graphData[brush.startIndex + 1].time
       /\ selectedTimeRange.endTime = graphData[brush.endIndex + 1].time


\* C25: 'Clear all' (resetFilters) restores the default filters and clears
\* the hour range, leaves logs, metrics and graphData unchanged, and makes
\* the filtered view the full record list.
C25_ClearAllRestoresDefaults ==
  [][ResetFilters =>
       /\ filters' = [search |-> <<>>, method |-> "all", status |-> "all",
                      timeRange |-> "1h"]
       /\ selectedTimeRange'.isNull
       /\ UNCHANGED <<logs, metrics, graphData>>
       /\ filteredLogs(logs', filters', selectedTimeRange') = logs']_vars
C25_Witness ==
  /\ filters = InitialFilters
  /\ selectedTimeRange.isNull
  /\ ~brush.isNull
  /\ Len(logs) = 2
  /\ logs[1] # logs[2]
  /\ FilteredLogs = logs


(***************************************************************************)
(* SpecBackend: Logsv2 with fetchApiLogs wired to a backend (API           *)
(* INTEGRATION GUIDE), which returns its records in any order.             *)
(***************************************************************************)
BackendBatches == SeqsUpTo(BackendRecordSet, MaxFilterLen)

InitBackend ==
  /\ Init
  /\ variant = "Logsv2"

\* loadData / handleRefresh with the backend's response as data.logs
BackendIngest(op) ==
  /\ \E data \in BackendBatches :
       /\ setAll(data)
       /\ batch' = data
  /\ fetches' = fetches + 1
  /\ applied' = {"calculateMetrics", "generateGraphData"}
  /\ lastOp' = op
  /\ UNCHANGED <<extraVars, variant, tzOffset, now, isRealTime, filters,
                 selectedTimeRange, brush, intervals, inFlight>>

LoadBackendData ==
  /\ ~mounted
  /\ mounted' = TRUE
  /\ BackendIngest("loadData")

RefreshBackendData ==
  /\ mounted
  /\ fetches <= MaxFetches
  /\ UNCHANGED mounted
  /\ BackendIngest("handleRefresh")

NextBackend ==
  \/ LoadBackendData
  \/ RefreshBackendData

SpecBackend == InitBackend /\ [][NextBackend]_vars

\* timestamp a >= timestamp b, as instants
NotOlder(a, b) ==
  LET x == DateOf(a.timestamp)
      y == DateOf(b.timestamp)
  IN ~x.nan /\ ~y.nan /\ x.v >= y.v
NewestFirst(s) == \A i \in 1..(Len(s) - 1) : NotOlder(s[i], s[i + 1])

CapOf(v) == IF v = "TerminalAPILogsDashboard" THEN TerminalCap ELSE StreamCap
Streaming == variant \in {"APILogsDashboard", "TerminalAPILogsDashboard"}

\* C27: in the streaming dashboards the list never exceeds the cap, and a
\* real-time tick puts exactly one new record at the head, keeps the earlier
\* records in their order and drops the oldest beyond the cap; the new
\* record is not older than any record kept.
C27_StreamIsBounded ==
  /\ [](Streaming => Len(logs) <= CapOf(variant))
  /\ [][(lastOp' \in TickOps /\ fetches' = fetches + 1) =>
          /\ Len(logs') = (IF Len(logs) < CapOf(variant)
                           THEN Len(logs) + 1 ELSE CapOf(variant))
          /\ Head(logs').gen = fetches'
          /\ Head(logs') \notin RecordsOf(logs)
          /\ Tail(logs') = SubSeq(logs, 1, Len(logs') - 1)
          /\ \A i \in 1..Len(logs') : NotOlder(Head(logs'), logs'[i])]_vars
C27_Witness ==
  /\ variant = "APILogsDashboard"
  /\ lastOp = "streamTick"
  /\ fetches = 2
  /\ Len(logs) = StreamCap
  /\ logs[2].gen = 1
  /\ logs[3].gen = 0


(***************************************************************************)
(* SpecPagination: the dashboard of New/old.jsx with its paginated table   *)
(* (RecentAPILogs), which shows `logs` ten to a page.                      *)
(***************************************************************************)
logsPerPage == 10

\* Math.ceil(n / d)
MathCeil(n, d) == (n + d - 1) \div d
Min(a, b) == IF a < b THEN a ELSE b
Max(a, b) == IF a > b THEN a ELSE b

totalPages == MathCeil(Len(logs), logsPerPage)
\* logs.slice(startIndex, endIndex)
currentLogs ==
  LET startIndex == (currentPage - 1) * logsPerPage
      endIndex == startIndex + logsPerPage
  IN SubSeq(logs, startIndex + 1, Min(endIndex, Len(logs)))

\* the mock returns 100 records, five minutes apart; a backend returns any
\* number, and a failed request none
PageBatchSizes == {0, 5, 15, 25, 35}
PageBatch(n, gen) ==
  [ i \in 1..n |->
      MockRecord(gen, i, now - (i - 1) * 300, [status |-> 200, latency |-> 50]) ]

InitPagination ==
  /\ Init
  /\ variant = "Logsv2"
  /\ tzOffset = 0

\* loadData / handleRefresh of old.jsx
PageIngest(op) ==
  /\ \E n \in PageBatchSizes :
       /\ setAll(PageBatch(n, fetches + 1))
       /\ batch' = PageBatch(n, fetches + 1)
  /\ fetches' = fetches + 1
  /\ applied' = {"calculateMetrics", "generateGraphData"}
  /\ lastOp' = op
  /\ UNCHANGED <<extraVars, variant, tzOffset, now, isRealTime, filters,
                 selectedTimeRange, brush, intervals, inFlight>>

PageLoad ==
  /\ ~mounted
  /\ mounted' = TRUE
  /\ PageIngest("loadData")

PageRefresh ==
  /\ mounted
  /\ fetches <= MaxFetches
  /\ UNCHANGED mounted
  /\ PageIngest("handleRefresh")

PageFrame(op) ==
  /\ lastOp' = op
  /\ UNCHANGED <<selectedLog, storyVars, variant, tzOffset, now, fetches, mounted,
                 logs, metrics, graphData, isRealTime, filters,
                 selectedTimeRange, brush, intervals, inFlight, batch, applied>>

\* Previous: setCurrentPage(prev => Math.max(prev - 1, 1))
PreviousPage ==
  /\ mounted /\ totalPages > 1
  /\ currentPage # 1
  /\ currentPage' = Max(currentPage - 1, 1)
  /\ PageFrame("previousPage")

\* Next: setCurrentPage(prev => Math.min(prev + 1, totalPages))
NextPage ==
  /\ mounted /\ totalPages > 1
  /\ currentPage # totalPages
  /\ currentPage' = Min(currentPage + 1, totalPages)
  /\ PageFrame("nextPage")

\* a page-number button: setCurrentPage(page), page in 1..Math.min(5, totalPages)
GoToPage ==
  /\ mounted /\ totalPages > 1
  /\ \E page \in 1..Min(5, totalPages) : currentPage' = page
  /\ PageFrame("goToPage")

NextPagination ==
  \/ PageLoad
  \/ PageRefresh
  \/ PreviousPage
  \/ NextPage
  \/ GoToPage

SpecPagination == InitPagination /\ [][NextPagination]_vars

\* C28 as stated: 1 <= currentPage <= max(1, ceil(|logs| / 10)), and the
\* page shown is non-empty whenever logs is non-empty.
C28_Original ==
  mounted =>
    /\ 1 <= currentPage
    /\ currentPage <= Max(1, totalPages)
    /\ logs # <<>> => currentLogs # <<>>


(***************************************************************************)
(* SpecStory: the story viewer under taps and timer firings.               *)
(* SpecStoryAuto: the story viewer left alone, its timers firing fairly.   *)
(***************************************************************************)
\* time passes in steps of at most TimeStep ms
TimeStep == 500
\* taps past the last story are accepted while fewer timers than this would
\* be pending (each one sets two)
MaxTimers == 3

Story ==
  [currentStory |-> currentStory, progressInterval |-> progressInterval,
   timers |-> timers]

SetStory(st) ==
  /\ currentStory' = st.currentStory
  /\ progressInterval' = st.progressInterval
  /\ timers' = st.timers

StoryFrame ==
  UNCHANGED <<selectedLog, currentPage, variant, tzOffset, now, fetches, mounted,
              logs, metrics, graphData, isRealTime, filters, selectedTimeRange,
              brush, intervals, inFlight, lastOp, batch, applied>>

InitStory ==
  /\ Init
  /\ variant = "Logsv2"
  /\ tzOffset = 0

Due == { i \in 1..Len(timers) : timers[i].left = 0 }
\* timers due at the same time run in the order they were set
FirstDue == CHOOSE i \in Due : \A j \in Due : i <= j
Remove(ts, i) == SubSeq(ts, 1, i - 1) \o SubSeq(ts, i + 1, Len(ts))
Fired == [Story EXCEPT !.timers = Remove(timers, FirstDue)]

\* the time until the next timer is due, at most TimeStep
Elapse ==
  LET nearest == CHOOSE i \in 1..Len(timers) :
                   \A j \in 1..Len(timers) : timers[i].left <= timers[j].left
  IN Min(TimeStep, timers[nearest].left)

TimePasses ==
  /\ timers # <<>>
  /\ Due = {}
  /\ timers' = [ i \in 1..Len(timers) |->
                   [timers[i] EXCEPT !.left = @ - Elapse] ]
  /\ UNCHANGED <<currentStory, progressInterval>>
  /\ StoryFrame

\* the callback of startStoryProgress: this.nextStory()
ProgressTimerFires ==
  /\ Due # {}
  /\ timers[FirstDue].kind = "progress"
  /\ SetStory(nextStory(Fired))
  /\ StoryFrame

\* the callback of showStoryComplete
ResetTimerFires ==
  /\ Due # {}
  /\ timers[FirstDue].kind = "reset"
  /\ SetStory(resetToFirstStory(Fired))
  /\ StoryFrame

\* the callback of showToast removes the toast
ToastTimerFires ==
  /\ Due # {}
  /\ timers[FirstDue].kind = "toast"
  /\ SetStory(Fired)
  /\ StoryFrame

\* handleStoryNavigation: a click in the left third
TapLeft ==
  /\ SetStory(previousStory(Story))
  /\ StoryFrame

\* handleStoryNavigation: a click in the right third
TapRight ==
  /\ currentStory = totalStories - 1 => Len(timers) + 2 <= MaxTimers
  /\ SetStory(nextStory(Story))
  /\ StoryFrame

NextStoryAuto ==
  \/ TimePasses
  \/ ProgressTimerFires
  \/ ResetTimerFires
  \/ ToastTimerFires

NextStory ==
  \/ NextStoryAuto
  \/ TapLeft
  \/ TapRight

SpecStory == InitStory /\ [][NextStory]_vars

\* the browser runs a timer's callback once it is due, and time goes on
SpecStoryAuto ==
  /\ InitStory
  /\ [][NextStoryAuto]_vars
  /\ WF_vars(TimePasses)
  /\ WF_vars(ProgressTimerFires)
  /\ WF_vars(ResetTimerFires)
  /\ WF_vars(ToastTimerFires)

StoryTimers ==
  { i \in 1..Len(timers) : timers[i].kind \in {"progress", "reset"} }

\* C29 as stated: at most one progress / reset timer is pending at any
\* time, and it is the one set for the story on show, so no story advances
\* or resets on a timer set for an earlier story.
C29_Original ==
  /\ Cardinality(StoryTimers) <= 1
  /\ \A i \in StoryTimers : timers[i].story = currentStory


\* C30: left alone, the viewer cycles forever: currentStory stays within
\* 0..totalStories - 1; a progress timer that fires moves one story on, or at
\* the last story stays there and schedules the reset; the reset goes to story
\* 0 with a progress timer running again; and every story leads to the next,
\* the last one to the first, over and over.
C30_ViewerCyclesForever ==
  /\ [](currentStory \in 0..(totalStories - 1))
  /\ [][ProgressTimerFires =>
          currentStory' = IF currentStory < totalStories - 1
                            THEN currentStory + 1 ELSE currentStory]_vars
  /\ [][ResetTimerFires =>
          /\ currentStory' = 0
          /\ \E i \in 1..Len(timers') :
               /\ timers'[i].kind = "progress"
               /\ timers'[i].left = storyDuration]_vars
  /\ \A s \in 0..(totalStories - 2) : (currentStory = s) ~> (currentStory = s + 1)
  /\ (currentStory = totalStories - 1) ~> (currentStory = 0)
  /\ []<>(currentStory = totalStories - 1)
  /\ []<>(currentStory = 0)

\* the viewer has gone round: it was constructed on story 2 and shows story 1
C30_Witness ==
  /\ currentStory = 1
  /\ \E i \in 1..Len(timers) : timers[i].kind = "progress" /\ timers[i].left = 0

====
